---- MODULE Spec2Model ----
(***************************************************************************)
(* State-machine model of benchmarks/run_benchmarks.py: the latency runner *)
(* (run_benchmarks / run_benchmark / execute_query_timing) and the         *)
(* throughput runner (run_throughput_benchmark / worker_execute_query),    *)
(* selected by main() from the command line.                               *)
(*                                                                         *)
(* One behaviour is one process: main() dispatches on --concurrency, the   *)
(* coordinating (main) thread walks the statements of the selected runner, *)
(* pool threads run worker_execute_query, and the environment advances the *)
(* monotonic clock read by time.perf_counter().                            *)
(*                                                                         *)
(* Spec follows one such process. StatSpec applies the statistics of both  *)
(* runners to lists of durations. SuiteSpec follows one run of             *)
(* benchmarks/run_all_benchmarks.py, which starts those processes.         *)
(* AnalysisSpec follows benchmarks/analyze_results.py over the latency     *)
(* reports and save_results_csv over one report.                           *)
(***************************************************************************)
EXTENDS Integers, Sequences, FiniteSets, TLC

\* ------------------------------------------------------------------ bounds
\* Most probes submitted for one query (caps query_counter).
MaxProbes == 3
\* A mid-range pool size that is simulated in full.
PoolSize == 2
\* Seconds by which one step of the environment advances the clock.
TickSeconds == 5
\* The clock stops advancing here.
MaxNow == 45
\* Largest --warmup-runs / --measurement-runs tried.
MaxWarmup == 1
MaxMeasure == 2

\* ------------------------------------------------------- program constants
MinConcurrency == 1
MaxConcurrency == 16
MinDuration == 20
MaxDuration == 60
\* future.result(timeout=5.0) of the drain loop, in seconds.
DrainTimeout == 5

\* Execution time (ms) measured by the k-th probe call (k from 0): positive,
\* and distinct per call so that the order of the samples is observable.
SampleTime(k) == k + 1
ProbeIds == 0..(MaxProbes - 1)

VARIABLES
    args,              \* parsed command line: mode and the runner's parameters
    catalog_file,      \* the "-- Query N: description" blocks of queries.sql
    queries,           \* the list parse_queries returned
    parsed,            \* parse_queries has been called
    pc,                \* statement the coordinating thread is at
    now,               \* time.perf_counter(), seconds
    deadline_seen,     \* a clock check of the coordinating thread showed now >= end_time
    qi,                \* index (1-based) of the catalog query being benchmarked
    start_time, end_time,
    futures,           \* the in-flight list of run_throughput_benchmark
    query_counter,
    snapshot,          \* futures of the copy futures[:] as_completed still has to yield
    iterating,         \* which list object a for statement is iterating
    di,                \* position of the drain loop in futures
    wait_start,        \* clock when the current future.result(timeout) began
    fut,               \* per submitted probe: its state in the pool and its outcome
    open_conns,        \* connection handles currently open
    completed_queries, failed_queries, execution_times,
    query_results,
    reports,           \* report files written so far
    exit_code,         \* -1 while the process runs, then its exit status
    error,             \* what ended the process abnormally
    conn,              \* latency mode: the connection of run_benchmarks
    conns_acquired,    \* latency mode: connections get_db_connection returned
    lat_i,             \* latency mode: calls issued in the current loop
    lat_calls,         \* latency mode: probe calls issued for the current query
    timings,           \* latency mode: timings of run_benchmark
    lprobe,            \* latency mode: outcome of the last execute_query_timing
    samples,           \* statistics: the list of durations handed to the helpers
    lat_out,           \* statistics: the stats run_benchmark computed, in order
    thr_out,           \* statistics: the stats run_throughput_benchmark computed
    config,            \* suite: what load_config read from config.yaml
    s_pc,              \* suite: the step function main() is in
    s_i, s_j,          \* suite: positions of the outer and inner for loop
    s_applied,         \* suite: the index command before the loop body has run
    commands,          \* suite: the commands run_command started, with exit codes
    db_indexes,        \* suite: the indexes of sql/indexes.sql exist in the store
    csv_scale,         \* suite: the scale of the CSV files in data/raw
    db_scale,          \* suite: the scale of the rows the tables hold
    report_files,      \* suite: report files written by the benchmark runs
    suite_exit,        \* suite: -1 while run_all_benchmarks.py runs, then its status
    all_results,       \* analysis: per (scale, index config) << report >> or << >>
    a_pc,              \* analysis: the statement analyze_results is at
    query_numbers,     \* analysis: the sorted query numbers of all reports
    a_i, a_j,          \* analysis: positions in SCALES and in query_numbers
    summary_rows,      \* analysis: the rows built for summary.csv
    summary_csv,       \* analysis: << rows written to summary.csv >> once written
    latency_csv        \* analysis: << outcome of save_results_csv >> once called

runnerVars ==
    << args, catalog_file, queries, parsed, pc, now, deadline_seen, qi,
       start_time, end_time, futures, query_counter, snapshot, iterating,
       di, wait_start, fut, open_conns, completed_queries, failed_queries,
       execution_times, query_results, reports, exit_code, error,
       conn, conns_acquired, lat_i, lat_calls, timings, lprobe >>
statVars == << samples, lat_out, thr_out >>
\* What the process of run_benchmarks.py leaves alone.
suiteVars == << config, s_pc, s_i, s_j, s_applied, commands, db_indexes,
               csv_scale, db_scale, report_files, suite_exit >>
analysisVars == << all_results, a_pc, query_numbers, a_i, a_j, summary_rows,
                  summary_csv, latency_csv >>
otherVars == << statVars, suiteVars, analysisVars >>

vars == << runnerVars, otherVars >>

poolVars == << futures, query_counter, snapshot, iterating, di, wait_start >>
aggVars == << completed_queries, failed_queries, execution_times >>
latVars == << conn, conns_acquired, lat_i, lat_calls, timings, lprobe >>
procVars == << exit_code, error, reports >>
cfgVars == << args, catalog_file >>

\* --------------------------------------------------------------- helpers
\* list.remove(x): drops the first occurrence of x.
RECURSIVE RemoveFirst(_, _)
RemoveFirst(s, x) ==
    IF s = << >> THEN << >>
    ELSE IF Head(s) = x THEN Tail(s)
    ELSE << Head(s) >> \o RemoveFirst(Tail(s), x)

Range(s) == { s[i] : i \in 1..Len(s) }

NoFuture == [st |-> "none", err |-> "none", out |-> "none",
             exec_time |-> 0, success |-> FALSE, conn |-> 0]

\* psycopg2.connect returns a connection object distinct from every live one.
NewConn(open) == CHOOSE c \in 1..(Cardinality(open) + 1) : c \notin open

ValidConcurrencyLoose(c) == c >= MinConcurrency - 1 /\ c <= MaxConcurrency
ValidConcurrency(c) == c >= MinConcurrency /\ c <= MaxConcurrency
ValidDuration(d) == d >= MinDuration /\ d <= MaxDuration

\* "time.perf_counter() < end_time", the test of both while loops.
AtOrBeforeDeadline(t, e) == t <= e
BeforeGraceDeadline(t, e) == t < e - DrainTimeout
BeforeDeadline(t, e) == t < e

\* The admission test of the inner while loop.
Admit(len, c, t, e) == len < c /\ BeforeDeadline(t, e)

\* "for query_num, description, sql_query in queries" is exhausted when the
\* 1-based position i is past the n queries: only then are the statements
\* after the loop, which assemble and save the report, reached.
LoopDoneEarly(i, n) == i >= n
LoopDone(i, n) == i > n

\* The list object the collection loop iterates: a copy, futures[:].
CollectIterates == "snapshot"
\* The list object the drain loop iterates: futures itself.
DrainIterates == "futures"

InFlight == { f \in ProbeIds : fut[f].st \in {"queued", "running"} }
PoolIdle == InFlight = {}

\* ------------------------------------------------------------- statistics
\* A statistic is None or a number. Numbers are exact fractions << num, den >>
\* with den > 0, so that the mean and the median of an even number of samples
\* are represented without rounding.
None == << >>
Num(k) == << k, 1 >>

\* sorted(timings): ascending and stable; the element at position i goes to
\* the position after those that are smaller, or equal and earlier.
Sorted(s) ==
    LET n == Len(s)
        rank == << >> \o [i \in 1..n |->
                    Cardinality({ j \in 1..n : s[j] < s[i] \/ (s[j] = s[i] /\ j < i) }) + 1]
    IN  [k \in 1..n |-> s[CHOOSE i \in 1..n : rank[i] = k]]

RECURSIVE SumSeq(_)
SumSeq(s) == IF s = << >> THEN 0 ELSE Head(s) + SumSeq(Tail(s))

RECURSIVE SumSquares(_)
SumSquares(s) == IF s = << >> THEN 0 ELSE Head(s) * Head(s) + SumSquares(Tail(s))

\* min(timings), max(timings)
MinOf(s) == CHOOSE x \in Range(s) : \A y \in Range(s) : x <= y
MaxOf(s) == CHOOSE x \in Range(s) : \A y \in Range(s) : x >= y

\* statistics.mean
Mean(s) == << SumSeq(s), Len(s) >>

\* statistics.median: the middle element of the sorted data, or the mean of
\* the two middle elements when their number is even.
Median(s) ==
    LET t == Sorted(s)
        n == Len(s)
    IN  IF n % 2 = 1 THEN Num(t[(n + 1) \div 2])
        ELSE << t[n \div 2] + t[n \div 2 + 1], 2 >>

\* statistics.stdev, represented by its square, the sample variance
\* (n * sum(x^2) - sum(x)^2) / (n * (n - 1)); needs two samples.
Stdev(s) ==
    LET n == Len(s)
    IN  << n * SumSquares(s) - SumSeq(s) * SumSeq(s), n * (n - 1) >>

\* The 0-based index int((p / 100.0) * n). For the integers p in {95, 99}
\* and every n up to 5000 the floating-point product truncates to the same
\* integer as the exact quotient.
RankIndexRounded(p, n) == (p * n + 50) \div 100
RankIndex(p, n) == (p * n) \div 100

\* "timings_sorted = sorted(timings)", the list both percentile helpers get.
Unsorted(s) == s
TimingsSorted(s) == Sorted(s)

\* percentile(sorted_list, p) of run_benchmark
PercentileCeilRank(sorted_list, p) ==
    IF sorted_list = << >> THEN None
    ELSE LET n == Len(sorted_list)
             index == (p * n + 99) \div 100 - 1
         IN  Num(sorted_list[(IF index < n - 1 THEN index ELSE n - 1) + 1])
PercentileLatency(sorted_list, p) ==
    IF sorted_list = << >> THEN None
    ELSE LET n == Len(sorted_list)
             index == RankIndex(p, n)
         IN  Num(sorted_list[(IF index < n - 1 THEN index ELSE n - 1) + 1])

\* percentile(sorted_list, p) of run_throughput_benchmark
PercentileThroughput(sorted_list, p) ==
    IF sorted_list = << >> THEN None
    ELSE LET n == Len(sorted_list)
             index == RankIndex(p, n)
         IN  Num(sorted_list[(IF index < n - 1 THEN index ELSE n - 1) + 1])

\* The stats dictionary run_benchmark returns.
LatencyStats(ts, measurement_runs) ==
    LET timings_sorted == TimingsSorted(ts)
        median == IF ts # << >> THEN Median(ts) ELSE None
    IN  [runs |-> measurement_runs,
         raw_timings |-> ts,
         min |-> IF ts # << >> THEN Num(MinOf(ts)) ELSE None,
         max |-> IF ts # << >> THEN Num(MaxOf(ts)) ELSE None,
         mean |-> IF ts # << >> THEN Mean(ts) ELSE None,
         median |-> median,
         p50 |-> median,
         p95 |-> PercentileLatency(timings_sorted, 95),
         p99 |-> PercentileLatency(timings_sorted, 99),
         stddev |-> IF Len(ts) > 1 THEN Stdev(ts) ELSE Num(0)]

\* "raw_timings": execution_times[:1000]
RawTimingsCap == 1000
FirstTimings(ts) ==
    SubSeq(ts, 1, IF Len(ts) < RawTimingsCap THEN Len(ts) ELSE RawTimingsCap)

\* "qps = completed_queries / actual_duration if actual_duration > 0 else 0"
Qps(completed, actual_duration) ==
    IF actual_duration > 0 THEN << completed, actual_duration >> ELSE Num(0)

\* The stats dictionary of one query of run_throughput_benchmark.
ThroughputStats(ts, completed, failed, actual_duration) ==
    IF ts # << >>
    THEN LET timings_sorted == TimingsSorted(ts)
             median == Median(ts)
         IN
         [total_queries |-> completed,
          failed_queries |-> failed,
          duration_seconds |-> actual_duration,
          qps |-> Qps(completed, actual_duration),
          raw_timings |-> FirstTimings(ts),
          min |-> Num(MinOf(ts)),
          max |-> Num(MaxOf(ts)),
          mean |-> Mean(ts),
          median |-> median,
          p50 |-> median,
          p95 |-> PercentileThroughput(timings_sorted, 95),
          p99 |-> PercentileThroughput(timings_sorted, 99),
          stddev |-> IF Len(ts) > 1 THEN Stdev(ts) ELSE Num(0)]
    ELSE [total_queries |-> 0,
          failed_queries |-> failed,
          duration_seconds |-> actual_duration,
          qps |-> Num(0),
          raw_timings |-> << >>,
          min |-> None,
          max |-> None,
          mean |-> None,
          median |-> None,
          p50 |-> None,
          p95 |-> None,
          p99 |-> None,
          stddev |-> Num(0)]

\* ------------------------------------------------------------------ Init
\* (concurrency, duration_seconds) pairs tried: each bound of both ranges,
\* the value just outside it, and a pool that is simulated in full.
ThroughputPairs ==
    { << MinConcurrency - 1, MinDuration >>, << MaxConcurrency + 1, MinDuration >>,
      << MinConcurrency, MinDuration - 1 >>, << MinConcurrency, MaxDuration + 1 >>,
      << MinConcurrency, MinDuration >>, << MaxConcurrency, MaxDuration >>,
      << PoolSize, MinDuration >> }

ThroughputArgs ==
    { [mode |-> "throughput", concurrency |-> p[1], duration_seconds |-> p[2],
       warmup_runs |-> 0, measurement_runs |-> 0] : p \in ThroughputPairs }

LatencyArgs ==
    { [mode |-> "latency", concurrency |-> 0, duration_seconds |-> 0,
       warmup_runs |-> w, measurement_runs |-> m] :
         w \in 0..MaxWarmup, m \in 1..MaxMeasure }

\* A block of queries.sql: the number and the description of its header
\* line and the SQL text left after comments and blank lines are removed.
Block(n, d, q) == [number |-> n, description |-> d, query |-> q]

\* The files tried: empty, one and two queries, two headers with the same
\* number, and a header numbered 0 followed by a block without SQL text.
Catalogs ==
    { << >>,
      << Block(1, "d1", "q1") >>,
      << Block(1, "d1", "q1"), Block(2, "d2", "q2") >>,
      << Block(1, "d1", "q1"), Block(1, "d2", "q2") >>,
      << Block(0, "d0", "q0"), Block(3, "d3", "") >> }

\* parse_queries: every block whose SQL text is not empty, in file order,
\* as (query_num, description, sql_query).
HasSql(b) == b.query # ""
ParseQueries(file) == SelectSeq(file, HasSql)

\* The state of a process of run_benchmarks.py before main() runs.
RunnerFresh ==
    /\ queries = << >>
    /\ parsed = FALSE
    /\ now = 0
    /\ deadline_seen = FALSE
    /\ qi = 0
    /\ start_time = 0
    /\ end_time = 0
    /\ futures = << >>
    /\ query_counter = 0
    /\ snapshot = {}
    /\ iterating = "none"
    /\ di = 0
    /\ wait_start = 0
    /\ fut = [f \in ProbeIds |-> NoFuture]
    /\ open_conns = {}
    /\ completed_queries = 0
    /\ failed_queries = 0
    /\ execution_times = << >>
    /\ query_results = << >>
    /\ reports = << >>
    /\ exit_code = -1
    /\ error = "none"
    /\ conn = "none"
    /\ conns_acquired = 0
    /\ lat_i = 0
    /\ lat_calls = 0
    /\ timings = << >>
    /\ lprobe = NoFuture

\* No process of run_benchmarks.py is followed.
RunnerIdle ==
    /\ args = [mode |-> "none", concurrency |-> 0, duration_seconds |-> 0,
               warmup_runs |-> 0, measurement_runs |-> 0]
    /\ catalog_file = << >>
    /\ pc = "idle"
    /\ RunnerFresh

\* No list of durations is under study.
StatIdle ==
    /\ samples = << >>
    /\ lat_out = << >>
    /\ thr_out = << >>

\* The defaults run_all_benchmarks.py uses for keys config.yaml leaves out.
DefaultConfig ==
    [scales |-> << "small" >>,
     index_configs |-> << "no_index", "with_index" >>,
     concurrency_levels |-> << 4, 8 >>,
     generate_summary |-> TRUE,
     generate_plots |-> TRUE]

\* run_all_benchmarks.py is not running.
SuiteIdle ==
    /\ config = DefaultConfig
    /\ s_pc = "idle"
    /\ s_i = 1
    /\ s_j = 1
    /\ s_applied = FALSE
    /\ commands = << >>
    /\ db_indexes = FALSE
    /\ csv_scale = "none"
    /\ db_scale = "none"
    /\ report_files = << >>
    /\ suite_exit = -1

\* The scales and index configurations analyze_results.py looks for.
SCALES == << "small", "medium", "large" >>
INDEX_CONFIGS == << "no_index", "with_index" >>
ResultKeys == { << SCALES[i], INDEX_CONFIGS[j] >> : i \in 1..3, j \in 1..2 }

\* analyze_results.py is not running and no report is being flattened.
AnalysisIdle ==
    /\ all_results = [k \in ResultKeys |-> << >>]
    /\ a_pc = "idle"
    /\ query_numbers = << >>
    /\ a_i = 1
    /\ a_j = 1
    /\ summary_rows = << >>
    /\ summary_csv = << >>
    /\ latency_csv = << >>

Init ==
    /\ args \in ThroughputArgs \cup LatencyArgs
    /\ catalog_file \in Catalogs
    /\ pc = "main"
    /\ RunnerFresh
    /\ StatIdle
    /\ SuiteIdle
    /\ AnalysisIdle

\* ------------------------------------------------------------ environment
\* The coordinating thread waits for a probe that has not finished and no
\* timeout of its own can end the wait yet: in as_completed, in
\* future.result(timeout=5.0), or in the executor's shutdown(wait=True).
WaitingOnProbe ==
    \/ pc = "t_collect" /\ \A f \in snapshot : fut[f].st # "done"
    \/ pc = "t_drain" /\ di <= Len(futures) /\ fut[futures[di]].st # "done"
                      /\ now < wait_start + DrainTimeout
    \/ pc \in {"t_shutdown", "t_unwind"} /\ ~PoolIdle

\* The admission loop would submit, but MaxProbes probes were submitted.
AtProbeCap ==
    /\ pc = "t_inner"
    /\ Admit(Len(futures), args.concurrency, now, end_time)
    /\ query_counter >= MaxProbes

\* The monotonic clock, at a resolution of TickSeconds: the statements of
\* the coordinating thread take no time at this resolution, so the clock
\* advances while that thread waits. Probes take any time.
Tick ==
    /\ exit_code = -1
    /\ WaitingOnProbe \/ AtProbeCap
    /\ now + TickSeconds <= MaxNow
    /\ now' = now + TickSeconds
    /\ UNCHANGED << otherVars, cfgVars, queries, parsed, pc, deadline_seen, qi, start_time,
                    end_time, poolVars, fut, open_conns, aggVars,
                    query_results, procVars, latVars >>

\* ------------------------------------------------------------------ main
Main ==
    /\ pc = "main"
    /\ pc' = IF args.mode = "throughput" THEN "t_validate" ELSE "l_parse"
    /\ UNCHANGED << otherVars, cfgVars, queries, parsed, now, deadline_seen, qi, start_time,
                    end_time, poolVars, fut, open_conns, aggVars,
                    query_results, procVars, latVars >>

\* ------------------------------------------------- run_throughput_benchmark
Validate ==
    /\ pc = "t_validate"
    /\ IF ValidConcurrency(args.concurrency) /\ ValidDuration(args.duration_seconds)
       THEN /\ pc' = "t_parse"
            /\ UNCHANGED << exit_code, error >>
       ELSE /\ pc' = "exited"
            /\ exit_code' = 1
            /\ error' = "config"
    /\ UNCHANGED << otherVars, cfgVars, queries, parsed, now, deadline_seen, qi, start_time,
                    end_time, poolVars, fut, open_conns, aggVars,
                    query_results, reports, latVars >>

ParseThroughput ==
    /\ pc = "t_parse"
    /\ queries' = ParseQueries(catalog_file)
    /\ parsed' = TRUE
    /\ qi' = 1
    /\ query_results' = << >>
    /\ pc' = "t_for"
    /\ UNCHANGED << otherVars, cfgVars, now, deadline_seen, start_time, end_time, poolVars,
                    fut, open_conns, aggVars, procVars, latVars >>

\* Head of "for query_num, description, sql_query in queries" with the
\* per-query initialisation and the creation of the executor.
QueryStart ==
    /\ pc = "t_for"
    /\ qi <= Len(queries)
    /\ completed_queries' = 0
    /\ failed_queries' = 0
    /\ execution_times' = << >>
    /\ start_time' = now
    /\ end_time' = now + args.duration_seconds
    /\ deadline_seen' = FALSE
    /\ futures' = << >>
    /\ query_counter' = 0
    /\ snapshot' = {}
    /\ iterating' = "none"
    /\ di' = 0
    /\ wait_start' = 0
    /\ fut' = [f \in ProbeIds |-> NoFuture]
    /\ pc' = "t_outer"
    /\ UNCHANGED << otherVars, cfgVars, queries, parsed, now, qi, open_conns,
                    query_results, procVars, latVars >>

\* "while time.perf_counter() < end_time"
OuterTest ==
    /\ pc = "t_outer"
    /\ deadline_seen' = (deadline_seen \/ now >= end_time)
    /\ IF BeforeDeadline(now, end_time)
       THEN /\ pc' = "t_inner"
            /\ UNCHANGED << iterating, di, wait_start >>
       ELSE \* the drain loop "for future in futures" begins
            /\ pc' = "t_drain"
            /\ iterating' = DrainIterates
            /\ di' = 1
            /\ wait_start' = now
    /\ UNCHANGED << otherVars, cfgVars, queries, parsed, now, qi, start_time, end_time,
                    futures, query_counter, snapshot, fut, open_conns, aggVars,
                    query_results, procVars, latVars >>

\* "while len(futures) < concurrency and time.perf_counter() < end_time"
InnerTest ==
    /\ pc = "t_inner"
    /\ LET admit == Admit(Len(futures), args.concurrency, now, end_time) IN
        /\ ~AtProbeCap
        /\ deadline_seen' = IF Len(futures) < args.concurrency
                          THEN deadline_seen \/ now >= end_time
                          ELSE deadline_seen
        /\ IF admit
           THEN /\ pc' = "t_submit"
                /\ UNCHANGED << snapshot, iterating >>
           ELSE \* as_completed(futures[:]) takes its copy
                /\ snapshot' = { futures[i] : i \in 1..Len(futures) }
                /\ iterating' = IF futures = << >> THEN "none" ELSE CollectIterates
                /\ pc' = IF futures = << >> THEN "t_outer" ELSE "t_collect"
    /\ UNCHANGED << otherVars, cfgVars, queries, parsed, now, qi, start_time, end_time,
                    futures, query_counter, di, wait_start, fut, open_conns,
                    aggVars, query_results, procVars, latVars >>

\* executor.submit(worker_execute_query, sql_query, query_counter)
Submit ==
    /\ pc = "t_submit"
    /\ fut' = [fut EXCEPT ![query_counter] = [NoFuture EXCEPT !.st = "queued"]]
    /\ futures' = Append(futures, query_counter)
    /\ query_counter' = query_counter + 1
    /\ pc' = "t_inner"
    /\ UNCHANGED << otherVars, cfgVars, queries, parsed, now, deadline_seen, qi, start_time,
                    end_time, snapshot, iterating, di, wait_start, open_conns,
                    aggVars, query_results, procVars, latVars >>

\* ---------------------------------------------------- worker_execute_query
\* The handle get_db_connection() gives a worker.
WorkerConn(open) == NewConn(open)

\* "finally: if conn: conn.close()"
CloseOnSuccessOnly(open, c, success) == IF success THEN open \ {c} ELSE open
CloseOnReturn(open, c, success) == open \ {c}

\* What a worker does to a shared counter of the coordinating thread: nothing,
\* it only returns its result tuple.
WorkerCountsItself(n) == n + 1
WorkerLeaves(n) == n

\* A pool thread starts the probe: conn = get_db_connection() succeeds.
WorkerConnect(f) ==
    /\ fut[f].st = "queued"
    /\ LET c == WorkerConn(open_conns) IN
        /\ fut' = [fut EXCEPT ![f].st = "running", ![f].conn = c]
        /\ open_conns' = open_conns \cup {c}
    /\ UNCHANGED << otherVars, cfgVars, queries, parsed, pc, now, deadline_seen, qi,
                    start_time, end_time, poolVars, aggVars, query_results,
                    procVars, latVars >>

\* psycopg2.connect raises OperationalError: get_db_connection prints and
\* calls sys.exit(1). SystemExit is not an Exception, so the worker's except
\* clause does not catch it; conn is None in the finally clause; the pool
\* stores the SystemExit in the future.
WorkerConnectFail(f) ==
    /\ fut[f].st = "queued"
    /\ fut' = [fut EXCEPT ![f].st = "done", ![f].err = "connect",
                          ![f].out = "raised"]
    /\ UNCHANGED << otherVars, cfgVars, queries, parsed, pc, now, deadline_seen, qi,
                    start_time, end_time, poolVars, open_conns, aggVars,
                    query_results, procVars, latVars >>

\* cur.execute / cur.fetchall succeed: return (worker_id, execution_time, True)
WorkerSucceed(f) ==
    /\ fut[f].st = "running"
    /\ fut' = [fut EXCEPT ![f].st = "done", ![f].out = "returned",
                          ![f].exec_time = SampleTime(f), ![f].success = TRUE,
                          ![f].conn = 0]
    /\ open_conns' = CloseOnReturn(open_conns, fut[f].conn, TRUE)
    /\ completed_queries' = WorkerLeaves(completed_queries)
    /\ failed_queries' = failed_queries
    /\ UNCHANGED << otherVars, cfgVars, queries, parsed, pc, now, deadline_seen, qi,
                    start_time, end_time, poolVars, execution_times, query_results,
                    procVars, latVars >>

\* cur.execute / cur.fetchall raise: "except Exception" returns
\* (worker_id, 0.0, False)
WorkerFail(f) ==
    /\ fut[f].st = "running"
    /\ fut' = [fut EXCEPT ![f].st = "done", ![f].err = "exec",
                          ![f].out = "returned", ![f].exec_time = 0,
                          ![f].success = FALSE, ![f].conn = 0]
    /\ open_conns' = CloseOnReturn(open_conns, fut[f].conn, FALSE)
    /\ failed_queries' = WorkerLeaves(failed_queries)
    /\ completed_queries' = completed_queries
    /\ UNCHANGED << otherVars, cfgVars, queries, parsed, pc, now, deadline_seen, qi,
                    start_time, end_time, poolVars, execution_times, query_results,
                    procVars, latVars >>

\* ----------------------------------- run_throughput_benchmark, collection
\* Counts after "worker_id, exec_time, success = future.result(...)".
CompletedAfterAny(n, r) == n + 1
CompletedAfter(n, r) == IF r.success THEN n + 1 ELSE n
FailedAfter(n, r) == IF r.success THEN n ELSE n + 1
TimesAfterAlways(ts, r) == Append(ts, r.exec_time)
TimesAfter(ts, r) == IF r.success THEN Append(ts, r.exec_time) ELSE ts

\* futures after the body of the collection loop handled future f.
FuturesKept(fs, f) == fs
FuturesAfterCollect(fs, f) == RemoveFirst(fs, f)

\* One iteration of "for future in as_completed(futures[:])": as_completed
\* yields a finished future of the copy, then the body runs.
CollectNext(f) ==
    /\ pc = "t_collect"
    /\ f \in snapshot
    /\ fut[f].st = "done"
    /\ deadline_seen' = (deadline_seen \/ now >= end_time)
    /\ IF now >= end_time
       THEN \* break
            /\ pc' = "t_outer"
            /\ snapshot' = {}
            /\ iterating' = "none"
            /\ UNCHANGED << futures, aggVars >>
       ELSE IF fut[f].out = "raised"
       THEN \* future.result re-raises the worker's SystemExit, which
            \* "except Exception" does not catch
            /\ pc' = "t_unwind"
            /\ snapshot' = {}
            /\ iterating' = "none"
            /\ UNCHANGED << futures, aggVars >>
       ELSE /\ completed_queries' = CompletedAfter(completed_queries, fut[f])
            /\ failed_queries' = FailedAfter(failed_queries, fut[f])
            /\ execution_times' = TimesAfter(execution_times, fut[f])
            /\ futures' = FuturesAfterCollect(futures, f)
            /\ snapshot' = snapshot \ {f}
            /\ pc' = IF snapshot' = {} THEN "t_outer" ELSE "t_collect"
            /\ iterating' = IF snapshot' = {} THEN "none" ELSE iterating
    /\ UNCHANGED << otherVars, cfgVars, queries, parsed, now, qi, start_time, end_time,
                    query_counter, di, wait_start, fut, open_conns,
                    query_results, procVars, latVars >>

\* ----------------------------------------- run_throughput_benchmark, drain
\* One iteration of "for future in futures" with future.result(timeout=5.0).
DrainNext ==
    /\ pc = "t_drain"
    /\ di <= Len(futures)
    /\ LET f == futures[di] IN
        \/ /\ fut[f].st = "done"
           /\ fut[f].out = "returned"
           /\ completed_queries' = CompletedAfter(completed_queries, fut[f])
           /\ failed_queries' = FailedAfter(failed_queries, fut[f])
           /\ execution_times' = TimesAfter(execution_times, fut[f])
           /\ di' = di + 1
           /\ wait_start' = now
           /\ UNCHANGED << pc, iterating >>
        \/ /\ fut[f].st = "done"
           /\ fut[f].out = "raised"
           /\ pc' = "t_unwind"
           /\ iterating' = "none"
           /\ UNCHANGED << aggVars, di, wait_start >>
        \/ \* TimeoutError, caught by "except Exception"
           /\ fut[f].st # "done"
           /\ now >= wait_start + DrainTimeout
           /\ failed_queries' = failed_queries + 1
           /\ di' = di + 1
           /\ wait_start' = now
           /\ UNCHANGED << pc, iterating, completed_queries, execution_times >>
    /\ UNCHANGED << otherVars, cfgVars, queries, parsed, now, deadline_seen, qi, start_time,
                    end_time, futures, query_counter, snapshot, fut,
                    open_conns, query_results, procVars, latVars >>

DrainEnd ==
    /\ pc = "t_drain"
    /\ di > Len(futures)
    /\ pc' = "t_shutdown"
    /\ iterating' = "none"
    /\ UNCHANGED << otherVars, cfgVars, queries, parsed, now, deadline_seen, qi, start_time,
                    end_time, futures, query_counter, snapshot, di, wait_start,
                    fut, open_conns, aggVars, query_results, procVars,
                    latVars >>

\* Leaving "with ThreadPoolExecutor(...)": shutdown(wait=True) returns when
\* every submitted probe has finished.
Shutdown ==
    /\ pc = "t_shutdown"
    /\ PoolIdle
    /\ pc' = "t_measure"
    /\ UNCHANGED << otherVars, cfgVars, queries, parsed, now, deadline_seen, qi, start_time,
                    end_time, poolVars, fut, open_conns, aggVars,
                    query_results, procVars, latVars >>

\* The SystemExit leaves the with block (shutdown(wait=True) again) and
\* ends the process with status 1.
Unwind ==
    /\ pc = "t_unwind"
    /\ PoolIdle
    /\ pc' = "exited"
    /\ exit_code' = 1
    /\ error' = "connect"
    /\ UNCHANGED << otherVars, cfgVars, queries, parsed, now, deadline_seen, qi, start_time,
                    end_time, poolVars, fut, open_conns, aggVars,
                    query_results, reports, latVars >>

\* query_results.append(...) of both runners
PrependResult(rs, r) == << r >> \o rs
AppendResult(rs, r) == Append(rs, r)

\* actual_duration, qps and the statistics of one query; query_results.append
Measure ==
    /\ pc = "t_measure"
    /\ deadline_seen' = deadline_seen
    /\ query_results' = AppendResult(query_results,
          [query_number |-> queries[qi].number,
           description |-> queries[qi].description,
           query |-> queries[qi].query,
           statistics |-> ThroughputStats(execution_times, completed_queries,
                                          failed_queries, now - start_time)])
    /\ qi' = qi + 1
    /\ pc' = "t_for"
    /\ UNCHANGED << otherVars, cfgVars, queries, parsed, now, start_time, end_time,
                    poolVars, fut, open_conns, aggVars, procVars, latVars >>

\* After the for loop: results are assembled and save_results_json writes the
\* report; run_throughput_benchmark returns True and main exits with 0.
ReportThroughput ==
    /\ pc = "t_for"
    /\ LoopDone(qi, Len(queries))
    /\ reports' = Append(reports, [file |-> "throughput",
                                   total_queries |-> Len(queries),
                                   queries |-> query_results])
    /\ pc' = "exited"
    /\ exit_code' = 0
    /\ UNCHANGED << otherVars, cfgVars, queries, parsed, now, deadline_seen, qi, start_time,
                    end_time, poolVars, fut, open_conns, aggVars,
                    query_results, error, latVars >>

ThroughputNext ==
    \/ Validate
    \/ ParseThroughput
    \/ QueryStart
    \/ OuterTest
    \/ InnerTest
    \/ Submit
    \/ \E f \in ProbeIds : WorkerConnect(f)
    \/ \E f \in ProbeIds : WorkerConnectFail(f)
    \/ \E f \in ProbeIds : WorkerSucceed(f)
    \/ \E f \in ProbeIds : WorkerFail(f)
    \/ \E f \in ProbeIds : CollectNext(f)
    \/ DrainNext
    \/ DrainEnd
    \/ Shutdown
    \/ Unwind
    \/ Measure
    \/ ReportThroughput

\* ----------------------------------------------------------- run_benchmarks
ParseLatency ==
    /\ pc = "l_parse"
    /\ queries' = ParseQueries(catalog_file)
    /\ parsed' = TRUE
    /\ pc' = "l_connect"
    /\ UNCHANGED << otherVars, cfgVars, now, deadline_seen, qi, start_time, end_time,
                    poolVars, fut, open_conns, aggVars, query_results,
                    procVars, latVars >>

\* conn = get_db_connection()
ConnectLatency ==
    /\ pc = "l_connect"
    /\ conn' = "open"
    /\ conns_acquired' = conns_acquired + 1
    /\ qi' = 1
    /\ query_results' = << >>
    /\ pc' = "l_for"
    /\ UNCHANGED << otherVars, cfgVars, queries, parsed, now, deadline_seen, start_time,
                    end_time, poolVars, fut, open_conns, aggVars, procVars,
                    lat_i, lat_calls, timings, lprobe >>

\* get_db_connection: OperationalError, sys.exit(1)
ConnectLatencyFail ==
    /\ pc = "l_connect"
    /\ pc' = "exited"
    /\ exit_code' = 1
    /\ error' = "connect"
    /\ UNCHANGED << otherVars, cfgVars, queries, parsed, now, deadline_seen, qi,
                    start_time, end_time, poolVars, fut, open_conns, aggVars,
                    query_results, reports, latVars >>

\* Head of the for loop of run_benchmarks: run_benchmark is entered.
LatencyQueryStart ==
    /\ pc = "l_for"
    /\ qi <= Len(queries)
    /\ lat_i' = 0
    /\ lat_calls' = 0
    /\ timings' = << >>
    /\ pc' = "l_warmup"
    /\ UNCHANGED << otherVars, cfgVars, queries, parsed, now, deadline_seen, qi,
                    start_time, end_time, poolVars, fut, open_conns, aggVars,
                    query_results, procVars, conn, conns_acquired, lprobe >>

\* ---------------------------------------------------- execute_query_timing
\* What the caller of execute_query_timing gets when the statement runs.
ProbeReturned(e) == [NoFuture EXCEPT !.st = "done", !.out = "returned",
                                     !.exec_time = e, !.success = TRUE]
\* What it gets when cur.execute / cur.fetchall raise: try/finally has no
\* except clause, so the cursor is closed and the exception propagates.
ProbeRaised == [NoFuture EXCEPT !.st = "done", !.err = "exec", !.out = "raised"]
ExecuteQueryTimingError == ProbeRaised

\* -------------------------------------------------------------- run_benchmark
\* timings after a warmup call returned t: the return value is dropped.
TimingsKeepWarmup(ts, t) == Append(ts, t)
TimingsAfterWarmup(ts, t) == ts

\* "for _ in range(warmup_runs): execute_query_timing(conn, query)"
WarmupCall ==
    /\ pc = "l_warmup"
    /\ lat_i < args.warmup_runs
    /\ conn = "open"
    /\ lprobe' = [ProbeReturned(SampleTime(lat_calls)) EXCEPT !.conn = conns_acquired]
    /\ timings' = TimingsAfterWarmup(timings, lprobe'.exec_time)
    /\ lat_i' = lat_i + 1
    /\ lat_calls' = lat_calls + 1
    /\ UNCHANGED << otherVars, cfgVars, queries, parsed, pc, now, deadline_seen, qi,
                    start_time, end_time, poolVars, fut, open_conns, aggVars,
                    query_results, procVars, conn, conns_acquired >>

WarmupEnd ==
    /\ pc = "l_warmup"
    /\ lat_i >= args.warmup_runs
    /\ lat_i' = 0
    /\ pc' = "l_measure"
    /\ UNCHANGED << otherVars, cfgVars, queries, parsed, now, deadline_seen, qi,
                    start_time, end_time, poolVars, fut, open_conns, aggVars,
                    query_results, procVars, conn, conns_acquired, lat_calls,
                    timings, lprobe >>

\* "timing = execute_query_timing(conn, query); timings.append(timing)"
MeasureCall ==
    /\ pc = "l_measure"
    /\ lat_i < args.measurement_runs
    /\ conn = "open"
    /\ lprobe' = [ProbeReturned(SampleTime(lat_calls)) EXCEPT !.conn = conns_acquired]
    /\ timings' = Append(timings, lprobe'.exec_time)
    /\ lat_i' = lat_i + 1
    /\ lat_calls' = lat_calls + 1
    /\ UNCHANGED << otherVars, cfgVars, queries, parsed, pc, now, deadline_seen, qi,
                    start_time, end_time, poolVars, fut, open_conns, aggVars,
                    query_results, procVars, conn, conns_acquired >>

\* A warmup or measurement call whose statement fails.
CallFails ==
    /\ pc \in {"l_warmup", "l_measure"}
    /\ lat_i < (IF pc = "l_warmup" THEN args.warmup_runs ELSE args.measurement_runs)
    /\ conn = "open"
    /\ lprobe' = [ExecuteQueryTimingError EXCEPT !.conn = conns_acquired]
    /\ lat_calls' = lat_calls + 1
    /\ IF lprobe'.out = "raised"
       THEN /\ pc' = "l_raise"
            /\ UNCHANGED << lat_i, timings >>
       ELSE /\ lat_i' = lat_i + 1
            /\ timings' = IF pc = "l_measure"
                          THEN Append(timings, lprobe'.exec_time) ELSE timings
            /\ pc' = pc
    /\ UNCHANGED << otherVars, cfgVars, queries, parsed, now, deadline_seen, qi,
                    start_time, end_time, poolVars, fut, open_conns, aggVars,
                    query_results, procVars, conn, conns_acquired >>

\* End of the measurement loop: the statistics are computed, the summary is
\* printed and the result is appended to query_results.
MeasureEnd ==
    /\ pc = "l_measure"
    /\ lat_i >= args.measurement_runs
    /\ query_results' = AppendResult(query_results,
          [query_number |-> queries[qi].number,
           description |-> queries[qi].description,
           query |-> queries[qi].query,
           statistics |-> LatencyStats(timings, args.measurement_runs)])
    /\ qi' = qi + 1
    /\ pc' = "l_for"
    /\ UNCHANGED << otherVars, cfgVars, queries, parsed, now, deadline_seen, start_time,
                    end_time, poolVars, fut, open_conns, aggVars, procVars,
                    latVars >>

\* "finally: conn.close()" of run_benchmarks, on every way out of the try.
NoFinally(c) == c
FinallyClose(c) == "closed"

\* After the for loop: save_results_json and save_results_csv write the
\* report, "finally: conn.close()", return True, main exits with 0.
ReportLatency ==
    /\ pc = "l_for"
    /\ LoopDone(qi, Len(queries))
    /\ reports' = Append(reports, [file |-> "latency",
                                   total_queries |-> Len(queries),
                                   queries |-> query_results])
    /\ conn' = FinallyClose(conn)
    /\ pc' = "exited"
    /\ exit_code' = 0
    /\ UNCHANGED << otherVars, cfgVars, queries, parsed, now, deadline_seen, qi,
                    start_time, end_time, poolVars, fut, open_conns, aggVars,
                    query_results, error, conns_acquired, lat_i, lat_calls,
                    timings, lprobe >>

\* The exception of a failed call leaves run_benchmark and run_benchmarks:
\* "finally: conn.close()", then the uncaught exception ends the process.
LatencyRaise ==
    /\ pc = "l_raise"
    /\ conn' = FinallyClose(conn)
    /\ pc' = "exited"
    /\ exit_code' = 1
    /\ error' = "traceback"
    /\ UNCHANGED << otherVars, cfgVars, queries, parsed, now, deadline_seen, qi,
                    start_time, end_time, poolVars, fut, open_conns, aggVars,
                    query_results, reports, conns_acquired, lat_i, lat_calls,
                    timings, lprobe >>

LatencyNext ==
    \/ ParseLatency
    \/ ConnectLatency
    \/ ConnectLatencyFail
    \/ LatencyQueryStart
    \/ WarmupCall
    \/ WarmupEnd
    \/ MeasureCall
    \/ CallFails
    \/ MeasureEnd
    \/ ReportLatency
    \/ LatencyRaise

Next == Tick \/ Main \/ ThroughputNext \/ LatencyNext

Spec == Init /\ [][Next]_vars

\* ------------------------------------------------- the statistics helpers
\* The statistics of run_benchmark and of run_throughput_benchmark are pure
\* functions of the list of durations. StatSpec applies both to every list
\* of SampleLists.
MaxLen == 3
MaxVal == 3
MaxRamp == 101
MaxAscending == 21
MaxComputations == 2

\* Every list of at most MaxLen durations out of 1..MaxVal.
ShortLists == UNION { [1..n -> 1..MaxVal] : n \in 0..MaxLen }
\* n distinct durations, ascending (up to MaxAscending of them) and
\* descending (up to MaxRamp of them).
RampUp(n) == [k \in 1..n |-> k]
RampDown(n) == [k \in 1..n |-> n + 1 - k]
SampleLists ==
    ShortLists
      \cup { RampUp(n) : n \in 1..MaxAscending }
      \cup { RampDown(n) : n \in 1..MaxRamp }
      \cup { << 10, 20, 30, 40, 50 >>, << 30, 50, 10, 40, 20 >> }

StatInit ==
    /\ RunnerIdle
    /\ SuiteIdle
    /\ AnalysisIdle
    /\ samples \in SampleLists
    /\ lat_out = << >>
    /\ thr_out = << >>

\* The list of durations after its statistics were computed: sorted(),
\* min(), max() and the statistics module read it and build new values, so
\* the list is what it was.
SortedInPlace(ts) == Sorted(ts)
TimingsAfterStats(ts) == ts

\* run_benchmark computes its statistics from timings.
ComputeLatencyStats ==
    /\ Len(lat_out) < MaxComputations
    /\ lat_out' = Append(lat_out, LatencyStats(samples, Len(samples)))
    /\ samples' = TimingsAfterStats(samples)
    /\ UNCHANGED << runnerVars, suiteVars, analysisVars, thr_out >>

\* run_throughput_benchmark computes the statistics of one query from
\* execution_times, the two counters and the measured duration.
ComputeThroughputStats ==
    /\ Len(thr_out) < MaxComputations
    /\ \E failed \in 0..1 :
          thr_out' = Append(thr_out, ThroughputStats(samples, Len(samples), failed, MinDuration))
    /\ samples' = TimingsAfterStats(samples)
    /\ UNCHANGED << runnerVars, suiteVars, analysisVars, lat_out >>

StatNext == ComputeLatencyStats \/ ComputeThroughputStats

StatSpec == StatInit /\ [][StatNext]_vars

\* ------------------------------------------------- run_all_benchmarks.py
\* One behaviour of SuiteSpec is one run of the full suite: main() walks its
\* six step functions, every run_command starts a child process and reads
\* its exit code, and a child that is a benchmark run writes its report.
Steps == << "generate_data", "load_data", "run_latency_benchmarks",
            "run_throughput_benchmarks", "capture_explain_plans",
            "analyze_results" >>
ReturnCodes == { 0, 1 }

Configs ==
    { [DefaultConfig EXCEPT !.scales = sc, !.concurrency_levels = cl,
                            !.generate_summary = gs, !.generate_plots = gp] :
        sc \in { << "small" >>, << "small", "medium" >> },
        cl \in { << 4 >>, << 4, 8 >> },
        gs \in BOOLEAN, gp \in BOOLEAN }

SuiteInit ==
    /\ RunnerIdle
    /\ StatIdle
    /\ AnalysisIdle
    /\ config \in Configs
    /\ s_pc = "load_config"
    /\ s_i = 1
    /\ s_j = 1
    /\ s_applied = FALSE
    /\ commands = << >>
    /\ db_indexes \in BOOLEAN
    /\ csv_scale = "none"
    /\ db_scale = "none"
    /\ report_files = << >>
    /\ suite_exit = -1

\* The command line of a child, the exit code run_command read, and the
\* store the child found when it started: its indexes and the scale of its
\* rows.
Command(script, action, scale, index_config, concurrency, rc) ==
    [script |-> script, action |-> action, scale |-> scale,
     index_config |-> index_config, concurrency |-> concurrency, rc |-> rc,
     on_indexes |-> db_indexes, on_scale |-> db_scale]

\* run_command returned False: the step function returns False and main()
\* calls sys.exit(1).
StepGoesOn ==
    /\ s_pc' = s_pc
    /\ suite_exit' = suite_exit
    /\ s_i' = s_i + 1
    /\ s_j' = 1
    /\ s_applied' = FALSE
StepFails ==
    /\ s_pc' = "failed"
    /\ suite_exit' = 1
    /\ UNCHANGED << s_i, s_j, s_applied >>

\* The next iteration of "for x in outer: for y in inner", after the body
\* ran for (s_i, s_j).
NextIteration(inner) ==
    /\ IF s_j < Len(inner)
       THEN s_i' = s_i /\ s_j' = s_j + 1
       ELSE s_i' = s_i + 1 /\ s_j' = 1
    /\ s_applied' = FALSE
    /\ UNCHANGED << s_pc, suite_exit >>

\* The files a benchmark run names: run_benchmarks writes a JSON report and
\* a CSV summary, run_throughput_benchmark a JSON report.
LatencyFiles(index_config, scale) ==
    << << "latency", index_config, scale, "json" >>,
       << "latency", index_config, scale, "csv" >> >>
ThroughputFiles(index_config, scale, concurrency) ==
    << << "throughput", index_config, scale, "json" >> >>

\* report_files after command number by wrote the files names.
Written(files, names, by) ==
    files \o [k \in 1..Len(names) |-> [name |-> names[k], by |-> by]]

\* load_config: a missing or unreadable config.yaml ends the suite.
LoadConfig ==
    /\ s_pc = "load_config"
    /\ \E ok \in BOOLEAN :
          IF ok THEN s_pc' = Steps[1] /\ suite_exit' = suite_exit
                ELSE s_pc' = "failed" /\ suite_exit' = 1
    /\ UNCHANGED << runnerVars, statVars, analysisVars, config, csv_scale, db_scale, s_i, s_j, s_applied, commands,
                    db_indexes, report_files >>

\* The CSV files after generate_data.py --scale scale returned rc: write_csv
\* opens categories.csv, products.csv, customers.csv, order_items.csv and
\* orders.csv of data/raw for writing, whatever the scale.
CsvAfterGenerate(csv, scale, rc) == IF rc = 0 THEN scale ELSE "partial"

\* The rows of the tables after load_data.py --scale scale returned rc: the
\* five loaders COPY the CSV files of data/raw; the scale is only printed.
\* sql/schema.sql, applied first, is not part of the sources: it empties the
\* tables or leaves their rows.
RowsAfterLoad(rows, csv, scale, rc) ==
    IF rc = 0
    THEN { csv, IF rows \in {"none", csv} THEN csv ELSE "appended" }
    ELSE { rows, "partial" }

\* generate_data: one generate_data.py per scale.
GenerateData ==
    /\ s_pc = "generate_data"
    /\ s_i <= Len(config.scales)
    /\ \E rc \in ReturnCodes :
          /\ commands' = Append(commands,
                Command("generate_data.py", "", config.scales[s_i], "", 0, rc))
          /\ csv_scale' = CsvAfterGenerate(csv_scale, config.scales[s_i], rc)
          /\ IF rc = 0 THEN NextIteration(<< >>) ELSE StepFails
    /\ UNCHANGED << runnerVars, statVars, analysisVars, config, db_scale, db_indexes,
                    report_files >>

\* load_data: one load_data.py per scale. It applies sql/schema.sql, which
\* is not part of the sources: the indexes survive it or not.
LoadData ==
    /\ s_pc = "load_data"
    /\ s_i <= Len(config.scales)
    /\ \E rc \in ReturnCodes :
          /\ commands' = Append(commands,
                Command("load_data.py", "", config.scales[s_i], "", 0, rc))
          /\ db_scale' \in RowsAfterLoad(db_scale, csv_scale, config.scales[s_i], rc)
          /\ IF rc = 0 THEN NextIteration(<< >>) ELSE StepFails
    /\ db_indexes' \in { db_indexes, FALSE }
    /\ UNCHANGED << runnerVars, statVars, analysisVars, config, csv_scale, report_files >>

\* run_latency_benchmarks, "if index_config == 'with_index'": apply_indexes.py
LatencyApplyIndexes ==
    /\ s_pc = "run_latency_benchmarks"
    /\ s_i <= Len(config.scales)
    /\ config.index_configs[s_j] = "with_index"
    /\ ~s_applied
    /\ \E rc \in ReturnCodes :
          /\ commands' = Append(commands,
                Command("apply_indexes.py", "apply", "", "", 0, rc))
          /\ IF rc = 0
             THEN /\ s_applied' = TRUE
                  /\ db_indexes' = TRUE
                  /\ UNCHANGED << s_pc, s_i, s_j, suite_exit >>
             ELSE StepFails /\ UNCHANGED db_indexes
    /\ UNCHANGED << runnerVars, statVars, analysisVars, config, csv_scale, db_scale, report_files >>

\* run_latency_benchmarks: run_benchmarks.py in latency mode for the scale
\* and the index configuration; a run that exits with 0 has written its files.
LatencyRun ==
    /\ s_pc = "run_latency_benchmarks"
    /\ s_i <= Len(config.scales)
    /\ config.index_configs[s_j] = "with_index" => s_applied
    /\ \E rc \in ReturnCodes :
          /\ commands' = Append(commands,
                Command("run_benchmarks.py", "latency", config.scales[s_i],
                        config.index_configs[s_j], 0, rc))
          /\ IF rc = 0
             THEN /\ report_files' = Written(report_files,
                        LatencyFiles(config.index_configs[s_j], config.scales[s_i]),
                        Len(commands'))
                  /\ NextIteration(config.index_configs)
             ELSE StepFails /\ UNCHANGED report_files
    /\ UNCHANGED << runnerVars, statVars, analysisVars, config, csv_scale, db_scale, db_indexes >>

\* run_throughput_benchmarks, "Ensure indexes are applied"
ThroughputApplyIndexes ==
    /\ s_pc = "run_throughput_benchmarks"
    /\ ~s_applied
    /\ s_i = 1 /\ s_j = 1
    /\ \E rc \in ReturnCodes :
          /\ commands' = Append(commands,
                Command("apply_indexes.py", "apply", "", "", 0, rc))
          /\ IF rc = 0
             THEN /\ s_applied' = TRUE
                  /\ db_indexes' = TRUE
                  /\ UNCHANGED << s_pc, s_i, s_j, suite_exit >>
             ELSE StepFails /\ UNCHANGED db_indexes
    /\ UNCHANGED << runnerVars, statVars, analysisVars, config, csv_scale, db_scale, report_files >>

\* run_throughput_benchmarks: run_benchmarks.py --index-config with_index
\* --concurrency c for the scale.
ThroughputRun ==
    /\ s_pc = "run_throughput_benchmarks"
    /\ s_applied
    /\ s_i <= Len(config.scales)
    /\ \E rc \in ReturnCodes :
          /\ commands' = Append(commands,
                Command("run_benchmarks.py", "throughput", config.scales[s_i],
                        "with_index", config.concurrency_levels[s_j], rc))
          /\ IF rc = 0
             THEN /\ report_files' = Written(report_files,
                        ThroughputFiles("with_index", config.scales[s_i],
                                        config.concurrency_levels[s_j]),
                        Len(commands'))
                  /\ IF s_j < Len(config.concurrency_levels)
                     THEN s_i' = s_i /\ s_j' = s_j + 1
                     ELSE s_i' = s_i + 1 /\ s_j' = 1
                  /\ UNCHANGED << s_pc, s_applied, suite_exit >>
             ELSE StepFails /\ UNCHANGED report_files
    /\ UNCHANGED << runnerVars, statVars, analysisVars, config, csv_scale, db_scale, db_indexes >>

\* capture_explain_plans: apply_indexes.py apply before the with_index plans,
\* apply_indexes.py drop before the others.
ExplainApplyIndexes ==
    /\ s_pc = "capture_explain_plans"
    /\ s_i <= Len(config.index_configs)
    /\ config.index_configs[s_i] = "with_index"
    /\ ~s_applied
    /\ \E rc \in ReturnCodes :
          /\ commands' = Append(commands,
                Command("apply_indexes.py", "apply", "", "", 0, rc))
          /\ IF rc = 0
             THEN /\ s_applied' = TRUE
                  /\ db_indexes' = TRUE
                  /\ UNCHANGED << s_pc, s_i, s_j, suite_exit >>
             ELSE StepFails /\ UNCHANGED db_indexes
    /\ UNCHANGED << runnerVars, statVars, analysisVars, config, csv_scale, db_scale, report_files >>

ExplainDropIndexes ==
    /\ s_pc = "capture_explain_plans"
    /\ s_i <= Len(config.index_configs)
    /\ config.index_configs[s_i] # "with_index"
    /\ ~s_applied
    /\ \E rc \in ReturnCodes :
          /\ commands' = Append(commands,
                Command("apply_indexes.py", "drop", "", "", 0, rc))
          /\ IF rc = 0
             THEN /\ s_applied' = TRUE
                  /\ db_indexes' = FALSE
                  /\ UNCHANGED << s_pc, s_i, s_j, suite_exit >>
             ELSE StepFails /\ UNCHANGED db_indexes
    /\ UNCHANGED << runnerVars, statVars, analysisVars, config, csv_scale, db_scale, report_files >>

\* capture_explain_plans: explain.py --index-config c, once per scale.
ExplainRun ==
    /\ s_pc = "capture_explain_plans"
    /\ s_i <= Len(config.index_configs)
    /\ s_applied
    /\ \E rc \in ReturnCodes :
          /\ commands' = Append(commands,
                Command("explain.py", "", "", config.index_configs[s_i], 0, rc))
          /\ IF rc = 0
             THEN /\ IF s_j < Len(config.scales)
                     THEN s_i' = s_i /\ s_j' = s_j + 1 /\ s_applied' = s_applied
                     ELSE s_i' = s_i + 1 /\ s_j' = 1 /\ s_applied' = FALSE
                  /\ UNCHANGED << s_pc, suite_exit >>
             ELSE StepFails
    /\ UNCHANGED << runnerVars, statVars, analysisVars, config, csv_scale, db_scale, db_indexes, report_files >>

\* analyze_results, "if analysis_config.get('generate_summary', True)"
AnalyzeSummary ==
    /\ s_pc = "analyze_results"
    /\ s_i = 1
    /\ IF config.generate_summary
       THEN \E rc \in ReturnCodes :
              /\ commands' = Append(commands,
                    Command("analyze_results.py", "", "", "", 0, rc))
              /\ IF rc = 0 THEN NextIteration(<< >>) ELSE StepFails
       ELSE NextIteration(<< >>) /\ UNCHANGED commands
    /\ UNCHANGED << runnerVars, statVars, analysisVars, config, csv_scale, db_scale, db_indexes, report_files >>

\* analyze_results, "if analysis_config.get('generate_plots', True)"
AnalyzePlots ==
    /\ s_pc = "analyze_results"
    /\ s_i = 2
    /\ IF config.generate_plots
       THEN \E rc \in ReturnCodes :
              /\ commands' = Append(commands,
                    Command("plot_results.py", "", "", "", 0, rc))
              /\ IF rc = 0 THEN NextIteration(<< >>) ELSE StepFails
       ELSE NextIteration(<< >>) /\ UNCHANGED commands
    /\ UNCHANGED << runnerVars, statVars, analysisVars, config, csv_scale, db_scale, db_indexes, report_files >>

\* The loops of the current step function are exhausted: it returns True.
StepExhausted ==
    \/ /\ s_pc \in { "generate_data", "load_data", "run_latency_benchmarks" }
       /\ s_i > Len(config.scales)
    \/ /\ s_pc = "run_throughput_benchmarks"
       /\ s_applied
       /\ s_i > Len(config.scales)
    \/ /\ s_pc = "capture_explain_plans"
       /\ s_i > Len(config.index_configs)
    \/ /\ s_pc = "analyze_results"
       /\ s_i > 2

\* "for step_name, step_func in steps": the next step function is called,
\* or the suite ends and the process exits with 0.
StepReturns ==
    /\ StepExhausted
    /\ LET k == CHOOSE n \in 1..Len(Steps) : Steps[n] = s_pc IN
          IF k < Len(Steps)
          THEN s_pc' = Steps[k + 1] /\ suite_exit' = suite_exit
          ELSE s_pc' = "done" /\ suite_exit' = 0
    /\ s_i' = 1
    /\ s_j' = 1
    /\ s_applied' = FALSE
    /\ UNCHANGED << runnerVars, statVars, analysisVars, config, csv_scale, db_scale, commands, db_indexes,
                    report_files >>

SuiteNext ==
    \/ LoadConfig
    \/ GenerateData
    \/ LoadData
    \/ LatencyApplyIndexes
    \/ LatencyRun
    \/ ThroughputApplyIndexes
    \/ ThroughputRun
    \/ ExplainApplyIndexes
    \/ ExplainDropIndexes
    \/ ExplainRun
    \/ AnalyzeSummary
    \/ AnalyzePlots
    \/ StepReturns

SuiteSpec == SuiteInit /\ [][SuiteNext]_vars

\* ------------------------------------------- analyze_results.py and the CSVs
\* One run of analyze_results.py over the latency reports found in the results
\* directory, and save_results_csv of run_benchmarks.py over one such report.
\* A report is the sequence under its "queries" key.
Result(n, d, ts) ==
    [query_number |-> n, description |-> d, query |-> "q",
     statistics |-> LatencyStats(ts, Len(ts))]

\* Reports of one query: p50 100, 25 and 0, and one whose statistics are null,
\* as run_benchmark computes them for no samples.
OneQueryReports ==
    { << Result(1, "d1", << 100 >>) >>,
      << Result(1, "d1", << 25 >>) >>,
      << Result(1, "d1", << 0 >>) >>,
      << Result(1, "d1", << >>) >>,
      << Result(1, "d1", << 3, 4 >>) >> }
TwoQueryReports ==
    { << Result(1, "d1", << 100 >>), Result(2, "d2", << 50 >>) >>,
      << Result(2, "d2", << 10 >>), Result(1, "d1", << >>) >> }

\* The files latency_{index_config}_{scale}.json: << >> when the file is
\* missing, otherwise << report >>.
ResultFiles ==
    { f \in [ResultKeys -> {<< >>} \cup { << r >> : r \in OneQueryReports \cup TwoQueryReports }] :
        /\ f[<< "medium", "no_index" >>] \in {<< >>} \cup { << r >> : r \in TwoQueryReports }
        /\ f[<< "medium", "with_index" >>] \in {<< >>, << << Result(1, "d1", << 25 >>) >> >>}
        /\ f[<< "large", "no_index" >>] \in {<< >>, << << Result(1, "d1", << 100 >>) >> >>}
        /\ f[<< "large", "with_index" >>] = << >> }

AnalysisInit ==
    /\ RunnerIdle
    /\ StatIdle
    /\ SuiteIdle
    /\ all_results \in ResultFiles
    /\ a_pc = "load"
    /\ query_numbers = << >>
    /\ a_i = 1
    /\ a_j = 1
    /\ summary_rows = << >>
    /\ summary_csv = << >>
    /\ latency_csv = << >>

\* calculate_speedup
SpeedupZeroWhenUndefined(no_index_value, with_index_value) ==
    IF with_index_value = None THEN None
    ELSE IF with_index_value[1] = 0 THEN Num(0)
    ELSE IF no_index_value = None THEN None
    ELSE << no_index_value[1] * with_index_value[2],
            no_index_value[2] * with_index_value[1] >>
CalculateSpeedup(no_index_value, with_index_value) ==
    IF with_index_value = None \/ with_index_value[1] = 0 THEN None
    ELSE IF no_index_value = None THEN None
    ELSE << no_index_value[1] * with_index_value[2],
            no_index_value[2] * with_index_value[1] >>

\* extract_query_metrics: << >> when no result carries the number, otherwise
\* << metrics >> of the first result that does.
RECURSIVE ExtractQueryMetrics(_, _)
ExtractQueryMetrics(results, query_num) ==
    IF results = << >> THEN << >>
    ELSE IF Head(results).query_number = query_num
         THEN << [p50 |-> Head(results).statistics.p50,
                  p95 |-> Head(results).statistics.p95,
                  mean |-> Head(results).statistics.mean,
                  min |-> Head(results).statistics.min,
                  max |-> Head(results).statistics.max] >>
         ELSE ExtractQueryMetrics(Tail(results), query_num)

\* The metrics of a query under one configuration of a scale; << >> when the
\* file is missing or has no such query.
MetricsOf(scale, index_config, query_num) ==
    IF all_results[<< scale, index_config >>] = << >> THEN << >>
    ELSE ExtractQueryMetrics(all_results[<< scale, index_config >>][1], query_num)

\* The description lookup: the first configuration whose report has the query.
RECURSIVE FirstDescription(_, _)
FirstDescription(results, query_num) ==
    IF results = << >> THEN ""
    ELSE IF Head(results).query_number = query_num THEN Head(results).description
    ELSE FirstDescription(Tail(results), query_num)
DescriptionOf(scale, query_num) ==
    LET d1 == IF all_results[<< scale, "no_index" >>] = << >> THEN ""
              ELSE FirstDescription(all_results[<< scale, "no_index" >>][1], query_num)
        d2 == IF all_results[<< scale, "with_index" >>] = << >> THEN ""
              ELSE FirstDescription(all_results[<< scale, "with_index" >>][1], query_num)
    IN  IF d1 # "" THEN d1 ELSE d2

\* The speedup of one metric: calculated only "if no_index_metrics and
\* with_index_metrics".
SpeedupOf(no_index_metrics, with_index_metrics, metric) ==
    IF no_index_metrics # << >> /\ with_index_metrics # << >>
    THEN CalculateSpeedup(no_index_metrics[1][metric], with_index_metrics[1][metric])
    ELSE None

MetricOf(metrics, metric) == IF metrics # << >> THEN metrics[1][metric] ELSE None

\* The row dictionary of one (scale, query).
SummaryRow(scale, query_num) ==
    LET no_index_metrics == MetricsOf(scale, "no_index", query_num)
        with_index_metrics == MetricsOf(scale, "with_index", query_num)
    IN  [scale |-> scale,
         query_number |-> query_num,
         description |-> DescriptionOf(scale, query_num),
         no_index_p50_ms |-> MetricOf(no_index_metrics, "p50"),
         no_index_p95_ms |-> MetricOf(no_index_metrics, "p95"),
         no_index_mean_ms |-> MetricOf(no_index_metrics, "mean"),
         with_index_p50_ms |-> MetricOf(with_index_metrics, "p50"),
         with_index_p95_ms |-> MetricOf(with_index_metrics, "p95"),
         with_index_mean_ms |-> MetricOf(with_index_metrics, "mean"),
         p50_speedup |-> SpeedupOf(no_index_metrics, with_index_metrics, "p50"),
         p95_speedup |-> SpeedupOf(no_index_metrics, with_index_metrics, "p95"),
         mean_speedup |-> SpeedupOf(no_index_metrics, with_index_metrics, "mean")]

\* A CSV cell holding a number: << h >>, the value in hundredths as "{:.2f}"
\* prints it (rounded to the nearest hundredth); the empty cell is << >>.
EmptyCell == << >>
Fixed2(value) == << (200 * value[1] + value[2]) \div (2 * value[2]) >>

\* The cell formatting of analyze_results: "" for None, "{:.2f}" for a float.
FormatSummaryValue(value) == IF value = None THEN EmptyCell ELSE Fixed2(value)

FormattedRow(row) ==
    [scale |-> row.scale,
     query_number |-> row.query_number,
     description |-> row.description,
     no_index_p50_ms |-> FormatSummaryValue(row.no_index_p50_ms),
     no_index_p95_ms |-> FormatSummaryValue(row.no_index_p95_ms),
     no_index_mean_ms |-> FormatSummaryValue(row.no_index_mean_ms),
     with_index_p50_ms |-> FormatSummaryValue(row.with_index_p50_ms),
     with_index_p95_ms |-> FormatSummaryValue(row.with_index_p95_ms),
     with_index_mean_ms |-> FormatSummaryValue(row.with_index_mean_ms),
     p50_speedup |-> FormatSummaryValue(row.p50_speedup),
     p95_speedup |-> FormatSummaryValue(row.p95_speedup),
     mean_speedup |-> FormatSummaryValue(row.mean_speedup)]

\* The query numbers of every loaded report.
AllQueryNumbers ==
    UNION { { all_results[k][1][i].query_number : i \in 1..Len(all_results[k][1]) } :
            k \in { k \in ResultKeys : all_results[k] # << >> } }

RECURSIVE SortedNumbers(_)
SortedNumbers(S) ==
    IF S = {} THEN << >>
    ELSE LET m == CHOOSE x \in S : \A y \in S : x <= y
         IN  << m >> \o SortedNumbers(S \ {m})

\* analyze_results, up to "query_numbers = sorted(query_numbers)": without any
\* query number it returns False and main() returns 1.
LoadResults ==
    /\ a_pc = "load"
    /\ IF AllQueryNumbers = {}
       THEN /\ a_pc' = "failed"
            /\ UNCHANGED query_numbers
       ELSE /\ a_pc' = "rows"
            /\ query_numbers' = SortedNumbers(AllQueryNumbers)
    /\ UNCHANGED << runnerVars, statVars, suiteVars, all_results, a_i, a_j,
                    summary_rows, summary_csv, latency_csv >>

\* One pass of "for scale in SCALES: for query_num in query_numbers".
BuildRow ==
    /\ a_pc = "rows"
    /\ summary_rows' = Append(summary_rows, SummaryRow(SCALES[a_i], query_numbers[a_j]))
    /\ IF a_j < Len(query_numbers)
       THEN /\ a_j' = a_j + 1
            /\ UNCHANGED << a_i, a_pc >>
       ELSE IF a_i < Len(SCALES)
       THEN /\ a_i' = a_i + 1
            /\ a_j' = 1
            /\ UNCHANGED a_pc
       ELSE /\ a_pc' = "write"
            /\ UNCHANGED << a_i, a_j >>
    /\ UNCHANGED << runnerVars, statVars, suiteVars, all_results, query_numbers,
                    summary_csv, latency_csv >>

\* The DictWriter loop over summary_rows; analyze_results returns True.
WriteSummary ==
    /\ a_pc = "write"
    /\ summary_csv' = << [i \in 1..Len(summary_rows) |-> FormattedRow(summary_rows[i])] >>
    /\ a_pc' = "done"
    /\ UNCHANGED << runnerVars, statVars, suiteVars, all_results, query_numbers,
                    a_i, a_j, summary_rows, latency_csv >>

\* One data row of save_results_csv: every statistic goes through
\* f"{stats[...]:.2f}". The stddev_ms cell is left out: the model holds the
\* square of stddev, and the cell prints its root.
LatencyCsvRow(query_result) ==
    [query_number |-> query_result.query_number,
     description |-> query_result.description,
     runs |-> query_result.statistics.runs,
     min_ms |-> Fixed2(query_result.statistics.min),
     max_ms |-> Fixed2(query_result.statistics.max),
     mean_ms |-> Fixed2(query_result.statistics.mean),
     median_ms |-> Fixed2(query_result.statistics.median),
     p50_ms |-> Fixed2(query_result.statistics.p50),
     p95_ms |-> Fixed2(query_result.statistics.p95),
     p99_ms |-> Fixed2(query_result.statistics.p99)]

\* format(None, ".2f") raises TypeError.
FormatRaises(query_result) ==
    \E m \in {"min", "max", "mean", "median", "p50", "p95", "p99", "stddev"} :
        query_result.statistics[m] = None

\* The rows save_results_csv writes before it returns or raises.
RECURSIVE LatencyCsvRows(_)
LatencyCsvRows(results) ==
    IF results = << >> \/ FormatRaises(Head(results)) THEN << >>
    ELSE << LatencyCsvRow(Head(results)) >> \o LatencyCsvRows(Tail(results))

\* save_results_csv(results, output_file) on one of the reports.
SaveResultsCsv ==
    /\ latency_csv = << >>
    /\ \E k \in ResultKeys :
          /\ all_results[k] # << >>
          /\ latency_csv' =
                << [key |-> k,
                    rows |-> LatencyCsvRows(all_results[k][1]),
                    raised |-> \E i \in 1..Len(all_results[k][1]) :
                                   FormatRaises(all_results[k][1][i])] >>
    /\ UNCHANGED << runnerVars, statVars, suiteVars, all_results, a_pc,
                    query_numbers, a_i, a_j, summary_rows, summary_csv >>

AnalysisNext == LoadResults \/ BuildRow \/ WriteSummary \/ SaveResultsCsv

AnalysisSpec == AnalysisInit /\ [][AnalysisNext]_vars

\* ================================================================== claims
Throughput == args.mode = "throughput"
Latency == args.mode = "latency"
NoWorkDone ==
    /\ ~parsed
    /\ open_conns = {}
    /\ query_counter = 0
    /\ \A f \in ProbeIds : fut[f].st = "none"
    /\ reports = << >>
OutOfRange ==
    \/ args.concurrency < 1 \/ args.concurrency > 16
    \/ args.duration_seconds < 20 \/ args.duration_seconds > 60

C2_EndsWithinGrace ==
    (Throughput /\ now > end_time + 5) => ~WaitingOnProbe

\* C3: a worker whose connection cannot be established does not abort the
\* throughput measurement: the run goes on and the report is still produced.
C3_ConnectFailureDegrades ==
    (Throughput /\ \E f \in ProbeIds : fut[f].err = "connect") =>
        /\ pc # "t_unwind"
        /\ pc = "exited" => (exit_code = 0 /\ reports # << >>)

FailedSample(r) == r.out = "returned" /\ r.exec_time = 0 /\ ~r.success

\* C4: neither probe raises to its caller: an execution error of the
\* statement yields a returned failed sample with duration 0, in
\* execute_query_timing (latency) and in worker_execute_query (throughput).
C4_ProbeNeverRaises ==
    /\ lprobe.err = "exec" => FailedSample(lprobe)
    /\ \A f \in ProbeIds : fut[f].err = "exec" => FailedSample(fut[f])

\* C5: in latency mode a failed warmup or measurement call is tolerated: the
\* runner goes on with the remaining calls and queries and persists a report.
C5_CallFailureTolerated ==
    (Latency /\ lprobe.err = "exec") =>
        /\ pc \in {"l_warmup", "l_measure", "l_for", "exited"}
        /\ pc = "exited" =>
              (exit_code = 0 /\ reports # << >>
                 /\ Len(query_results) = Len(queries))

\* C6: no probe is admitted past the deadline: query_counter grows only by
\* the submit statement, the submit statement is reached only from the
\* admission test at a clock value below end_time, and once a clock check
\* has shown now >= end_time no probe is submitted for that query.
C6_NoAdmissionPastDeadline ==
    [][ /\ (query_counter' > query_counter) =>
              (pc = "t_submit" /\ query_counter' = query_counter + 1)
        /\ (pc' = "t_submit" /\ pc # "t_submit") =>
              (pc = "t_inner" /\ now < end_time /\ ~deadline_seen')
        /\ deadline_seen =>
              (pc' # "t_submit" /\ query_counter' <= query_counter) ]_vars

C6_Witness ==
    /\ Throughput
    /\ deadline_seen
    /\ pc = "t_drain"
    /\ query_counter >= 2
    /\ Len(futures) < args.concurrency

\* C7: whenever a probe completes before the deadline a replacement is
\* admitted without waiting for the other in-flight probes: while the runner
\* waits for completions before the deadline the pool is full.
C7_PoolKeptFull ==
    (Throughput /\ pc = "t_collect" /\ now < end_time
                /\ \A f \in snapshot : fut[f].st # "done") =>
        Len(futures) >= args.concurrency

\* A step of a pool thread: a probe leaves the queued or the running state.
WorkerStep ==
    \E f \in ProbeIds : fut[f].st \in {"queued", "running"} /\ fut'[f].st # fut[f].st

\* C8: workers never write the shared aggregation state (completed_queries,
\* failed_queries, execution_times change only in steps of the coordinating
\* thread), and the futures list is never mutated while a for statement
\* iterates that same list object.
C8_SingleWriter ==
    [][ /\ (aggVars' # aggVars) => ~WorkerStep
        /\ (futures' # futures) => (iterating # "futures" /\ ~WorkerStep) ]_vars

C8_Witness ==
    /\ completed_queries >= 1
    /\ iterating = "snapshot"
    /\ \E f \in Range(futures) : fut[f].st = "running"
    /\ \E f \in ProbeIds : fut[f].st = "done" /\ f \notin Range(futures)

\* The coordinating thread consumes the result of the failed probe f.
FailureCollected(f) ==
    /\ fut[f].err = "exec"
    /\ \/ CollectNext(f) /\ now < end_time
       \/ DrainNext /\ di <= Len(futures) /\ futures[di] = f

\* C9: a probe whose execution fails adds exactly one to failed_queries and
\* nothing to completed_queries or execution_times, is not submitted again,
\* and leaves the runner in its loops: probes are admitted after it.
C9_FailureCountedOnce ==
    [][ /\ \A f \in ProbeIds : FailureCollected(f) =>
              /\ failed_queries' = failed_queries + 1
              /\ completed_queries' = completed_queries
              /\ execution_times' = execution_times
              /\ query_counter' = query_counter
              /\ fut' = fut
              /\ pc' \in {"t_collect", "t_outer", "t_drain"}
              /\ pc = "t_collect" => f \notin Range(futures')
        /\ \A f \in ProbeIds :
              (fut[f].st = "done" /\ fut'[f].st # "done") => pc = "t_for" ]_vars

C9_Witness ==
    /\ failed_queries = 1
    /\ ~deadline_seen
    /\ \E f, g \in ProbeIds :
          /\ f < g
          /\ fut[f].err = "exec"
          /\ f \notin Range(futures)
          /\ fut[g].st = "queued"
          /\ g \in Range(futures)

RunningProbes == { f \in ProbeIds : fut[f].st = "running" }

\* C10: at most `concurrency` probes are in flight, no two probes use the
\* same connection, at most `concurrency` connections are open, and the
\* connection of a probe is closed when the probe returns, on success and on
\* failure: the open connections are exactly those of the running probes.
C10_PoolBounded ==
    Throughput =>
        /\ Cardinality(InFlight) <= args.concurrency
        /\ Len(futures) <= args.concurrency
        /\ \A f, g \in RunningProbes : f # g => fut[f].conn # fut[g].conn
        /\ Cardinality(open_conns) <= args.concurrency
        /\ open_conns = { fut[f].conn : f \in RunningProbes }

C10_Witness ==
    /\ args.concurrency = PoolSize
    /\ Cardinality(open_conns) = 1
    /\ Cardinality(RunningProbes) = 1
    /\ \E f \in ProbeIds : fut[f].st = "done" /\ fut[f].err = "exec"
    /\ \E f \in ProbeIds : fut[f].st = "done" /\ fut[f].success

\* C11: a throughput run never closes its admission window early: the
\* admission loop of a query is left for the drain only at a clock value of
\* at least end_time, and the duration measured for every query, whatever
\* its probes did, is at least duration_seconds.
C11_WindowNotClosedEarly ==
    Throughput =>
        /\ pc \in {"t_drain", "t_shutdown", "t_measure"} =>
              (now >= end_time /\ end_time = start_time + args.duration_seconds)
        /\ \A i \in 1..Len(query_results) :
              query_results[i].statistics.duration_seconds >= args.duration_seconds

C11_Witness ==
    /\ Throughput
    /\ \E i \in 1..Len(query_results) :
          /\ query_results[i].statistics.total_queries >= 1
          /\ query_results[i].statistics.failed_queries >= 1
          /\ query_results[i].statistics.duration_seconds >= args.duration_seconds

\* The measured durations of a query whose calls all returned: the sample
\* times of the calls numbered warmup_runs .. warmup_runs + measurement_runs - 1.
MeasuredOnly(ts, n) ==
    /\ Len(ts) = n
    /\ \A k \in 1..n : ts[k] = SampleTime(args.warmup_runs + k - 1)

\* C12: while no call fails, the latency runner issues warmup_runs calls
\* whose durations are dropped, then measurement_runs calls whose durations
\* are recorded, warmup_runs + measurement_runs calls per query in all, and
\* the statistics of a query are those of exactly its measured durations
\* (runs = len(raw_timings) = measurement_runs).
C12_WarmupThenMeasure ==
    (Latency /\ pc # "l_raise" /\ error = "none") =>
        /\ pc = "l_warmup" =>
              (timings = << >> /\ lat_calls = lat_i /\ lat_i <= args.warmup_runs)
        /\ pc = "l_measure" =>
              /\ lat_calls = args.warmup_runs + lat_i
              /\ lat_i <= args.measurement_runs
              /\ MeasuredOnly(timings, lat_i)
        /\ (pc \in {"l_for", "exited"} /\ query_results # << >>) =>
              lat_calls = args.warmup_runs + args.measurement_runs
        /\ \A i \in 1..Len(query_results) :
              LET st == query_results[i].statistics IN
                /\ st.runs = args.measurement_runs
                /\ MeasuredOnly(st.raw_timings, args.measurement_runs)
                /\ st.min = Num(SampleTime(args.warmup_runs))
                /\ st.max = Num(SampleTime(args.warmup_runs + args.measurement_runs - 1))
                /\ st.mean = << SumSeq(st.raw_timings), args.measurement_runs >>

C12_Witness ==
    /\ Latency
    /\ args.warmup_runs = 1
    /\ args.measurement_runs = 2
    /\ Len(query_results) = 2
    /\ pc = "exited"
    /\ exit_code = 0

\* C13: latency mode runs on one connection: get_db_connection returns once
\* per run, no pool thread and no other connection exists, every call of the
\* probe is made on that connection while it is open, and the connection is
\* closed when the run ends, by completion or by an error.
C13_OneConnection ==
    Latency =>
        /\ conns_acquired <= 1
        /\ (conn = "none") <=> (conns_acquired = 0)
        /\ open_conns = {}
        /\ \A f \in ProbeIds : fut[f].st = "none"
        /\ lprobe.st = "done" => (lprobe.conn = 1 /\ conns_acquired = 1)
        /\ pc \in {"l_for", "l_warmup", "l_measure", "l_raise"} => conn = "open"
        /\ (pc = "exited" /\ conns_acquired > 0) => conn = "closed"

C13_Witness ==
    /\ Latency
    /\ pc = "exited"
    /\ error = "traceback"
    /\ conn = "closed"
    /\ Len(query_results) = 1
    /\ lprobe.conn = 1

\* The statistics computed so far for the list under study.
Computed == { lat_out[i] : i \in 1..Len(lat_out) } \cup { thr_out[i] : i \in 1..Len(thr_out) }
RatLeq(a, b) == a[1] * b[2] <= b[1] * a[2]
RatEq(a, b) == a[1] * b[2] = b[1] * a[2]

\* C14: for every non-empty list of durations the statistics of both modes
\* satisfy min <= p50 <= p95 <= p99 <= max, and p50 is the median.
C14_PercentilesOrdered ==
    samples # << >> =>
        \A st \in Computed :
            /\ None \notin { st.min, st.p50, st.p95, st.p99, st.max, st.median }
            /\ RatLeq(st.min, st.p50)
            /\ RatLeq(st.p50, st.p95)
            /\ RatLeq(st.p95, st.p99)
            /\ RatLeq(st.p99, st.max)
            /\ st.p50 = st.median

C14_Witness ==
    /\ lat_out # << >>
    /\ thr_out # << >>
    /\ Len(samples) = 21
    /\ samples[1] > samples[2]
    /\ \A st \in Computed :
          /\ st.p95 = Num(20)
          /\ st.max = Num(21)
          /\ st.p50 = Num(11)
          /\ st.min = Num(1)

\* The nearest-rank element of s for p, stated without sorting: with
\* k = min(floor(p * n / 100), n - 1), the duration x of s such that at most
\* k durations are below x and more than k durations are at most x.
NearestRank(s, p) ==
    LET n == Len(s)
        k == IF (p * n) \div 100 < n - 1 THEN (p * n) \div 100 ELSE n - 1
    IN  CHOOSE x \in Range(s) :
            /\ Cardinality({ i \in 1..n : s[i] < x }) <= k
            /\ Cardinality({ i \in 1..n : s[i] <= x }) > k

\* C15: p95 and p99 of both modes are the nearest-rank elements of the
\* list, the element at index min(floor(p * n / 100), n - 1) of the sorted
\* list; the two percentile helpers agree; and for [10, 20, 30, 40, 50]
\* p95 = p99 = 50, min = 10, max = 50 and mean = median = p50 = 30.
C15_NearestRank ==
    /\ (samples # << >> /\ Computed # {}) =>
          LET p95 == Num(NearestRank(samples, 95))
              p99 == Num(NearestRank(samples, 99))
          IN  \A st \in Computed : st.p95 = p95 /\ st.p99 = p99
    /\ \A a, b \in Computed : a.p95 = b.p95 /\ a.p99 = b.p99
    /\ samples = << 10, 20, 30, 40, 50 >> =>
          \A st \in Computed :
              /\ st.p95 = Num(50) /\ st.p99 = Num(50)
              /\ st.min = Num(10) /\ st.max = Num(50)
              /\ RatEq(st.mean, Num(30))
              /\ st.median = Num(30) /\ st.p50 = Num(30)

C15_Witness ==
    /\ samples = << 10, 20, 30, 40, 50 >>
    /\ lat_out # << >>
    /\ thr_out # << >>
    /\ lat_out[1].p95 = Num(50)
    /\ thr_out[1].p99 = Num(50)

\* C16: for an empty list of durations every one of min, max, mean, median,
\* p50, p95, p99 and stddev is None, in the statistics of both modes.
C16_EmptyIsNone ==
    samples = << >> =>
        \A st \in Computed :
            { st.min, st.max, st.mean, st.median, st.p50, st.p95, st.p99,
              st.stddev } = { None }

\* C17: a catalog in which parse_queries finds no query is a fatal
\* configuration error in both modes: after it was parsed no connection is
\* opened, no probe is issued, no report is written, and the process exits
\* with a non-zero status.
C17_EmptyCatalogFatal ==
    (parsed /\ queries = << >>) =>
        /\ conn = "none"
        /\ open_conns = {}
        /\ query_counter = 0
        /\ reports = << >>
        /\ pc = "exited" => (exit_code = 1 /\ error = "config")

\* C18: a report file is written once: among the files written by the
\* benchmark runs of one run of the suite no file name occurs twice, so each
\* run, and each concurrency level of a scale, keeps its own report.
C18_ReportWrittenOnce ==
    \A i, j \in 1..Len(report_files) :
        i # j => report_files[i].name # report_files[j].name

\* C19: no partial report is persisted: a report is written only by a run
\* that benchmarked every query of the catalog, it holds one result per
\* query, and a run that aborts has written nothing.
C19_NoPartialReport ==
    /\ Len(reports) <= 1
    /\ \A k \in 1..Len(reports) :
          /\ Len(reports[k].queries) = Len(queries)
          /\ reports[k].total_queries = Len(queries)
          /\ \A i \in 1..Len(queries) :
                reports[k].queries[i].query_number = queries[i].number
          /\ pc = "exited"
          /\ exit_code = 0
    /\ exit_code = 1 => reports = << >>

C19_Witness ==
    /\ exit_code = 1
    /\ Len(queries) = 2
    /\ Len(query_results) = 1
    /\ reports = << >>

\* C20: the throughput measurement of every query is consistent: the
\* completed count is the number of recorded durations, every recorded
\* duration is that of a successful probe (a failed probe returns 0 and is
\* not recorded), total_queries is that count, qps is the count divided by
\* the stored duration, and qps is 0 exactly when the count is 0.
C20_MeasurementConsistent ==
    Throughput =>
        /\ completed_queries = Len(execution_times)
        /\ \A k \in 1..Len(execution_times) :
              \E f \in ProbeIds :
                  fut[f].success /\ fut[f].exec_time = execution_times[k]
        /\ \A i \in 1..Len(query_results) :
              LET st == query_results[i].statistics IN
                /\ Len(st.raw_timings) =
                      (IF st.total_queries < RawTimingsCap
                       THEN st.total_queries ELSE RawTimingsCap)
                /\ st.duration_seconds > 0
                /\ RatEq(st.qps, << st.total_queries, st.duration_seconds >>)
                /\ (st.qps[1] = 0) <=> (st.total_queries = 0)
                /\ \A k \in 1..Len(st.raw_timings) : st.raw_timings[k] > 0

C20_Witness ==
    /\ Throughput
    /\ \E i, j \in 1..Len(query_results) :
          /\ query_results[i].statistics.total_queries = 0
          /\ query_results[i].statistics.qps = Num(0)
          /\ query_results[i].statistics.failed_queries >= 1
          /\ query_results[j].statistics.total_queries = 2
          /\ query_results[j].statistics.failed_queries = 1
          /\ query_results[j].statistics.qps[1] = 2

\* C21: the report of a completed run, in either mode, holds one result per
\* query of the catalog parse_queries returned, in catalog order, each with
\* the number, the description and the text of its query, and its
\* total_queries is the length of that sequence.
C21_CatalogPreserved ==
    /\ parsed => queries = ParseQueries(catalog_file)
    /\ \A k \in 1..Len(reports) :
          /\ Len(reports[k].queries) = Len(queries)
          /\ reports[k].total_queries = Len(reports[k].queries)
          /\ \A i \in 1..Len(queries) :
                /\ reports[k].queries[i].query_number = queries[i].number
                /\ reports[k].queries[i].description = queries[i].description
                /\ reports[k].queries[i].query = queries[i].query

C21_Witness ==
    /\ pc = "exited"
    /\ exit_code = 0
    /\ Len(reports) = 1
    /\ Len(reports[1].queries) = 2
    /\ reports[1].queries[1].description = "d1"
    /\ reports[1].queries[2].description = "d2"
    /\ reports[1].queries[2].query = "q2"

\* C22: the list parse_queries returned has pairwise distinct, positive
\* query numbers.
C22_NumbersUnique ==
    parsed =>
        /\ \A i \in 1..Len(queries) : queries[i].number > 0
        /\ \A i, j \in 1..Len(queries) :
              i # j => queries[i].number # queries[j].number

Metrics == {"p50", "p95", "mean"}
HasQuery(scale, index_config, query_num) ==
    /\ all_results[<< scale, index_config >>] # << >>
    /\ \E i \in 1..Len(all_results[<< scale, index_config >>][1]) :
          all_results[<< scale, index_config >>][1][i].query_number = query_num
FirstStat(scale, index_config, query_num, metric) ==
    LET r == all_results[<< scale, index_config >>][1]
        i == CHOOSE i \in 1..Len(r) :
                 /\ r[i].query_number = query_num
                 /\ \A j \in 1..(i - 1) : r[j].query_number # query_num
    IN  r[i].statistics[metric]
Defined(scale, query_num, metric) ==
    /\ HasQuery(scale, "no_index", query_num)
    /\ HasQuery(scale, "with_index", query_num)
    /\ FirstStat(scale, "no_index", query_num, metric) # None
    /\ FirstStat(scale, "with_index", query_num, metric) # None
    /\ FirstStat(scale, "with_index", query_num, metric)[1] # 0

\* C23: calculate_speedup returns no_index / with_index when both values are
\* present and with_index is not 0 (100 and 25 give 4.0) and None, never 0,
\* when with_index is 0 or missing or no_index is missing; a summary row
\* carries a speedup for a (scale, query) only when both configurations have
\* metrics for it, and then it is that quotient.
C23_SpeedupDefined ==
    /\ RatEq(CalculateSpeedup(Num(100), Num(25)), Num(4))
    /\ \A k \in 1..Len(summary_rows) : \A m \in Metrics :
          LET row == summary_rows[k]
              speedup == row[m \o "_speedup"]
          IN  IF Defined(row.scale, row.query_number, m)
              THEN /\ speedup # None
                   /\ speedup[1] * FirstStat(row.scale, "with_index", row.query_number, m)[1]
                                 * FirstStat(row.scale, "no_index", row.query_number, m)[2]
                      = speedup[2] * FirstStat(row.scale, "with_index", row.query_number, m)[2]
                                   * FirstStat(row.scale, "no_index", row.query_number, m)[1]
              ELSE speedup = None

C23_Witness ==
    /\ a_pc = "done"
    /\ \E k \in 1..Len(summary_rows) :
          /\ summary_rows[k].no_index_p50_ms = Num(100)
          /\ summary_rows[k].with_index_p50_ms = Num(25)
          /\ RatEq(summary_rows[k].p50_speedup, Num(4))
    /\ \E k \in 1..Len(summary_rows) :
          /\ summary_rows[k].no_index_p50_ms # None
          /\ summary_rows[k].with_index_p50_ms = None
          /\ summary_rows[k].p50_speedup = None

Distinct(s) == \A i, j \in 1..Len(s) : i # j => s[i] # s[j]

\* C25: with 1 to 20 samples p95 is the maximum and with 1 to 100 samples p99
\* is the maximum, in both modes; with 21 distinct samples p95 is strictly
\* below the maximum.
C25_SmallSamplePercentiles ==
    \A st \in Computed :
        /\ Len(samples) \in 1..20 => st.p95 = st.max
        /\ Len(samples) \in 1..100 => st.p99 = st.max
        /\ (Len(samples) = 21 /\ Distinct(samples)) =>
              /\ st.p95 # None
              /\ st.p95[1] < st.max[1]

C25_Witness ==
    /\ samples = RampDown(100)
    /\ Len(lat_out) = 1
    /\ Len(thr_out) = 1
    /\ \A st \in Computed :
          /\ st.p99 = Num(100)
          /\ st.max = Num(100)
          /\ st.p95 = Num(96)

SummaryColumns ==
    {"no_index_p50_ms", "no_index_p95_ms", "no_index_mean_ms",
     "with_index_p50_ms", "with_index_p95_ms", "with_index_mean_ms",
     "p50_speedup", "p95_speedup", "mean_speedup"}

\* C26: in the summary CSV and in the latency CSV a statistic that is None
\* becomes an empty cell and its row is written: summary.csv has one row per
\* built row, with an empty cell exactly where the value is None, and
\* save_results_csv writes one row per query of the report without raising.
C26_NoneIsEmptyCell ==
    /\ summary_csv # << >> =>
          /\ Len(summary_csv[1]) = Len(summary_rows)
          /\ \A k \in 1..Len(summary_rows) : \A c \in SummaryColumns :
                summary_csv[1][k][c] = EmptyCell <=> summary_rows[k][c] = None
    /\ latency_csv # << >> =>
          /\ ~latency_csv[1].raised
          /\ Len(latency_csv[1].rows) = Len(all_results[latency_csv[1].key][1])

\* C27: every probe submitted in a throughput run of a query is counted
\* exactly once: while the run collects, the counted probes and those still
\* in futures add up to the submitted ones; while it drains, the counted
\* probes and those the drain has not reached do; and when the run ends
\* completed_queries + failed_queries is the number of probes submitted.
C27_EveryProbeCountedOnce ==
    Throughput =>
        /\ pc \in {"t_outer", "t_inner", "t_submit", "t_collect"} =>
              completed_queries + failed_queries + Len(futures) = query_counter
        /\ pc = "t_drain" =>
              completed_queries + failed_queries + (Len(futures) - (di - 1)) = query_counter
        /\ pc \in {"t_shutdown", "t_measure"} =>
              completed_queries + failed_queries = query_counter

C27_Witness ==
    /\ Throughput
    /\ pc = "t_measure"
    /\ query_counter >= 2
    /\ completed_queries >= 1
    /\ failed_queries >= 1
    /\ Len(futures) >= 1
    /\ \A f \in ProbeIds : fut[f].st = "done" => fut[f].success

Benchmarks == { k \in 1..Len(commands) : commands[k].script = "run_benchmarks.py" }

\* C28: in the full suite every benchmark run finds the indexes as its label
\* says: a run started with --index-config no_index finds them not applied
\* and a run started with --index-config with_index finds them applied.
C28_IndexesMatchLabel ==
    \A k \in Benchmarks :
        commands[k].on_indexes <=> commands[k].index_config = "with_index"

\* C29: in the full suite every benchmark run finds in the tables the rows of
\* the scale its --scale names.
C29_DatasetMatchesLabel ==
    \A k \in Benchmarks : commands[k].on_scale = commands[k].scale

\* The step a command belongs to; apply_indexes.py is started by three steps.
StepRank(c) ==
    IF c.script = "generate_data.py" THEN 1
    ELSE IF c.script = "load_data.py" THEN 2
    ELSE IF c.script = "run_benchmarks.py" /\ c.action = "latency" THEN 3
    ELSE IF c.script = "run_benchmarks.py" THEN 4
    ELSE IF c.script = "explain.py" THEN 5
    ELSE IF c.script \in {"analyze_results.py", "plot_results.py"} THEN 6
    ELSE 0

\* C30: the suite starts its commands in the order of its steps (data
\* generation, loading, latency runs, throughput runs, plans, analysis); a
\* command is started only when every earlier command returned 0; after the
\* first command that returned non-zero no command is started and the suite
\* exits with a non-zero status, and it exits with 0 only when no command
\* failed.
C30_StopsAtFirstFailure ==
    /\ \A k \in 1..Len(commands) : \A l \in 1..Len(commands) :
          (k < l /\ StepRank(commands[k]) > 0 /\ StepRank(commands[l]) > 0) =>
              StepRank(commands[k]) <= StepRank(commands[l])
    /\ \A k \in 1..Len(commands) : k < Len(commands) => commands[k].rc = 0
    /\ (commands # << >> /\ commands[Len(commands)].rc # 0) =>
          (s_pc = "failed" /\ suite_exit = 1)
    /\ suite_exit = 0 =>
          (s_pc = "done" /\ \A k \in 1..Len(commands) : commands[k].rc = 0)
    /\ s_pc \in {"done", "failed"} <=> suite_exit # -1

C30_Witness ==
    /\ s_pc = "failed"
    /\ suite_exit = 1
    /\ Len(commands) = 7
    /\ commands[1].script = "generate_data.py"
    /\ commands[4].script = "load_data.py"
    /\ commands[6].script = "apply_indexes.py"
    /\ commands[7].script = "run_benchmarks.py"
    /\ commands[7].action = "latency"
    /\ commands[7].rc = 1
    /\ \A k \in 1..6 : commands[k].rc = 0

====
